---- MODULE Spec2Model ----
(***************************************************************************)
(* Model of sort_by_ext.py: the recursive walk of a source directory that  *)
(* copies or moves every regular file into <dest>/<lowercased extension>/, *)
(* with the collision naming of unique_target_path and the nested-path     *)
(* guard of is_subpath.                                                    *)
(*                                                                         *)
(* A file name is a sequence of tokens (the dot is a token of its own, a   *)
(* " (N)" marker is one token); a path is a sequence of names.  The file   *)
(* system is a function from the canonical paths that exist to nodes.      *)
(***************************************************************************)
EXTENDS Integers, Sequences, FiniteSets, TLC

VARIABLES
    fs,            \* the file system: canonical path -> node
    pc,            \* where main is: "start", "walk" or "done"
    src, dest,     \* the arguments of main
    move,          \* the --move flag
    stack,         \* the active calls of process_directory, innermost last
    total_files,   \* what process_directory returned to main
    total_errors,
    exit_code,     \* what main returned (-1 while it runs)
    run,           \* which run of main this is
    faults,        \* injected operating-system failures so far
    fs0,           \* history: the file system before the first run
    start_fs,      \* history: the file system when this run's walk began
    events         \* history: what was done to every entry

vars == <<fs, pc, src, dest, move, stack, total_files, total_errors,
          exit_code, run, faults, fs0, start_fs, events>>

-----------------------------------------------------------------------------
(* Bounds of the model *)

\* largest number of entries (besides the fixed directories) put in the source tree
MaxFiles == 2
\* largest number of injected operating-system failures in one behaviour
MaxFaults == 1
\* number of times main is run on the same source and destination
MaxRuns == 2

-----------------------------------------------------------------------------
(* Names and paths *)

DOT == "."
DotDot == <<"..">>
NoExt == <<"_no_ext">>

\* a sequence without its last element (the empty sequence stays empty)
Front(s) == SubSeq(s, 1, Len(s) - 1)

RECURSIVE NormUpTo(_, _)
\* the canonical form of the first k components of p
NormUpTo(p, k) ==
    IF k = 0 THEN <<>>
    ELSE IF p[k] = DotDot THEN Front(NormUpTo(p, k - 1))
         ELSE Append(NormUpTo(p, k - 1), p[k])

\* what the operating system (and Path.resolve) makes of a path: "x/.." cancels
Norm(p) == NormUpTo(p, Len(p))

resolve(p) == Norm(p)

\* Path.parents: every proper prefix of the path
parents(p) == { SubSeq(p, 1, k) : k \in 0..(Len(p) - 1) }

\* is_subpath comparing the paths as given, without resolving them
is_subpath_lexical(child, parent) ==
    parent \in parents(child) \/ child = parent

\* is_subpath without the test for equal paths
is_subpath_strict(child, parent) ==
    resolve(parent) \in parents(resolve(child))

\* is_subpath with the roles of its arguments exchanged
is_subpath_swapped(child, parent) ==
    resolve(child) \in parents(resolve(parent)) \/ resolve(child) = resolve(parent)

\* Check if `child` is a subpath of `parent` (based on resolved paths)

is_subpath(child, parent) ==
    LET child_r  == resolve(child)
        parent_r == resolve(parent)
    IN  parent_r \in parents(child_r) \/ child_r = parent_r

\* str.rfind('.') on a name: 0 when there is no dot (positions start at 1)
rfind(name) ==
    LET dots == { i \in 1..Len(name) : name[i] = DOT }
    IN  IF dots = {} THEN 0 ELSE CHOOSE i \in dots : \A j \in dots : j <= i

hasSuffix(name) == 1 < rfind(name) /\ rfind(name) < Len(name)

\* PurePath.suffix
suffix(name) ==
    IF hasSuffix(name) THEN SubSeq(name, rfind(name), Len(name)) ELSE <<>>

\* PurePath.stem
stem(name) ==
    IF hasSuffix(name) THEN SubSeq(name, 1, rfind(name) - 1) ELSE name

\* str.lower on one token
lowerTok(t) ==
    CASE t = "TXT"     -> "txt"
      [] t = "JPG"     -> "jpg"
      [] t = "B"       -> "b"
      [] t = "_NO_EXT" -> "_no_ext"
      [] OTHER         -> t

\* str.lower
lower(s) == SubSeq([i \in 1..Len(s) |-> lowerTok(s[i])], 1, Len(s))

\* str.lstrip("."): the sequence without its leading dots
lstripDot(s) ==
    SubSeq(s, 1 + Cardinality({ i \in 1..Len(s) : \A j \in 1..i : s[j] = DOT }), Len(s))

\* ext_of without lower()
ext_no_lower(name) ==
    IF suffix(name) # <<>> THEN lstripDot(suffix(name)) ELSE NoExt

\* ext_of taking whatever follows the last dot of the name, as name.split(".")[-1]
ext_split(name) ==
    IF rfind(name) > 0 THEN lower(SubSeq(name, rfind(name) + 1, Len(name))) ELSE NoExt

\* the bucket name of a file: entry.suffix.lower().lstrip(".") or "_no_ext"
ext_of(name) ==
    IF suffix(name) # <<>> THEN lstripDot(lower(suffix(name))) ELSE NoExt

-----------------------------------------------------------------------------
(* The file system *)

FileNode(d) == [kind |-> "file", data |-> d]
DirNode     == [kind |-> "dir",  data |-> <<>>]
OtherNode   == [kind |-> "other", data |-> <<>>]

exists(f, p)  == Norm(p) = <<>> \/ Norm(p) \in DOMAIN f
is_dir(f, p)  == Norm(p) = <<>> \/ (Norm(p) \in DOMAIN f /\ f[Norm(p)].kind = "dir")
is_file(f, p) == Norm(p) \in DOMAIN f /\ f[Norm(p)].kind = "file"

\* Path.iterdir: the children of a directory, as paths under the path given
iterdir(f, d) ==
    { Append(d, q[Len(q)]) : q \in { r \in DOMAIN f :
          Len(r) = Len(Norm(d)) + 1 /\ SubSeq(r, 1, Len(r) - 1) = Norm(d) } }

\* Path.mkdir(parents=True, exist_ok=True) succeeds unless a path segment is
\* taken by something that is not a directory
mkdir_ok(f, p) ==
    \A k \in 1..Len(Norm(p)) :
        LET q == SubSeq(Norm(p), 1, k) IN q \in DOMAIN f => f[q].kind = "dir"

mkdir(f, p) ==
    f @@ [q \in { SubSeq(Norm(p), 1, k) : k \in 1..Len(Norm(p)) } |-> DirNode]

\* shutil.copy2 to a path
copy2(f, from, to) ==
    (Norm(to) :> FileNode(f[Norm(from)].data)) @@ f

\* shutil.move of a file to a path
shmove(f, from, to) ==
    (Norm(to) :> FileNode(f[Norm(from)].data)) @@ [q \in DOMAIN f \ {Norm(from)} |-> f[q]]

\* place ignoring the move flag
copy_instead_of_move(f, from, to, mv) == copy2(f, from, to)

\* the placement primitive chosen by the move flag (lines 91-94)
place(f, from, to, mv) ==
    IF mv THEN shmove(f, from, to) ELSE copy2(f, from, to)

-----------------------------------------------------------------------------
(* unique_target_path *)

numbered(base, counter, suf) ==
    base \o <<" (" \o ToString(counter) \o ")">> \o suf

RECURSIVE unique_loop(_, _, _, _, _, _)
unique_loop(f, target_dir, base, suf, candidate, counter) ==
    IF exists(f, candidate)
    THEN unique_loop(f, target_dir, base, suf,
                     Append(target_dir, numbered(base, counter, suf)), counter + 1)
    ELSE candidate

\* unique_target_path without the loop
unique_no_check(f, target_dir, name) == Append(target_dir, name)

\* unique_target_path with "if" in place of "while"
unique_once(f, target_dir, name) ==
    IF exists(f, Append(target_dir, name))
    THEN Append(target_dir, numbered(stem(name), 1, suffix(name)))
    ELSE Append(target_dir, name)

\* unique_target_path with the counter starting at 2
unique_from_two(f, target_dir, name) ==
    LET base == stem(name)
        suf  == suffix(name)
    IN  unique_loop(f, target_dir, base, suf, Append(target_dir, base \o suf), 2)

unique_target_path(f, target_dir, name) ==
    LET base == stem(name)
        suf  == suffix(name)
    IN  unique_loop(f, target_dir, base, suf, Append(target_dir, base \o suf), 1)

-----------------------------------------------------------------------------
(* The initial file systems *)

S == <<"src">>
D == <<"dist">>
I == <<"inner_dist">>
A == <<"a">>
B == <<"b">>
T == <<"top">>

OldData == <<<<"old">>>>

\* the layouts of source and destination: src, dest, and what src is; the
\* second gives the destination src/a/inner_dist as src/b/../a/inner_dist
Layouts ==
    { [src |-> <<S>>,    dest |-> <<D>>,                  srckind |-> "dir"],
      [src |-> <<S>>,    dest |-> <<S, B, DotDot, A, I>>, srckind |-> "dir"],
      [src |-> <<S>>,    dest |-> <<S>>,                  srckind |-> "dir"],
      [src |-> <<T, S>>, dest |-> <<T>>,                  srckind |-> "dir"],
      [src |-> <<S>>,    dest |-> <<D>>,                  srckind |-> "missing"],
      [src |-> <<S>>,    dest |-> <<D>>,                  srckind |-> "file"] }

\* the entries a source tree is made of, relative to the source directory
Candidates ==
    { [rel |-> << <<"a", DOT, "txt">> >>,                  kind |-> "file"],
      [rel |-> << A, <<"same", DOT, "txt">> >>,            kind |-> "file"],
      [rel |-> << B, <<"same", DOT, "txt">> >>,            kind |-> "file"],
      [rel |-> << B, <<"B", DOT, "TXT">> >>,               kind |-> "file"],
      [rel |-> << A, <<DOT, "bashrc">> >>,                 kind |-> "file"],
      [rel |-> << <<"x", DOT, "_NO_EXT">> >>,              kind |-> "file"],
      [rel |-> << <<"sock">> >>,                           kind |-> "other"] }

\* what the destination holds before the first run
DestStates == {"absent", "taken", "blocked"}

SrcTree(root, chosen) ==
    LET dirs  == { SubSeq(root, 1, k) : k \in 1..Len(root) }
                   \cup { root \o <<A>>, root \o <<B>> }
        paths == dirs \cup { root \o c.rel : c \in chosen }
    IN  [q \in paths |->
            IF q \in dirs THEN DirNode
            ELSE LET c == CHOOSE c \in chosen : root \o c.rel = q
                 IN  IF c.kind = "file" THEN FileNode(<<q>>) ELSE OtherNode]

DestTree(d, st) ==
    LET txt == Append(d, <<"txt">>)
        dirs == CASE st = "absent"  -> {}
                  [] st = "taken"   -> { SubSeq(d, 1, k) : k \in 1..Len(d) } \cup {txt}
                  [] st = "blocked" -> { SubSeq(d, 1, k) : k \in 1..Len(d) }
        files == CASE st = "taken"   -> { Append(txt, <<"same", DOT, "txt">>) }
                   [] st = "blocked" -> { txt }
                   [] OTHER          -> {}
    IN  [q \in dirs \cup files |-> IF q \in files THEN FileNode(OldData) ELSE DirNode]

Merge(f, g) ==
    [q \in DOMAIN f \cup DOMAIN g |-> IF q \in DOMAIN f THEN f[q] ELSE g[q]]

InitialFs(layout, chosen, st) ==
    LET s == CASE layout.srckind = "dir"  -> SrcTree(layout.src, chosen)
               [] layout.srckind = "file" -> [q \in {layout.src} |-> FileNode(<<q>>)]
               [] OTHER                   -> [q \in {} |-> DirNode]
    IN  Merge(s, DestTree(Norm(layout.dest), st))

\* the state before main is run, for a layout, a source tree, a destination
\* state and a mode
Start(layout, chosen, st, mv) ==
        /\ fs = InitialFs(layout, chosen, st)
        /\ src = layout.src
        /\ dest = layout.dest
        /\ move = mv
        /\ pc = "start"
        /\ stack = <<>>
        /\ total_files = 0
        /\ total_errors = 0
        /\ exit_code = -1
        /\ run = 1
        /\ faults = 0
        /\ fs0 = fs
        /\ start_fs = fs
        /\ events = {}

Init ==
    \E layout \in Layouts, st \in DestStates, mv \in BOOLEAN :
    \E chosen \in { c \in SUBSET Candidates : Cardinality(c) <= MaxFiles } :
        Start(layout, chosen, st, mv)

\* the runs whose termination is checked: a destination beside the source or
\* nested in it, over trees of colliding names, a file without extension and
\* a socket
LiveLayouts == { l \in Layouts : l.srckind = "dir" /\ l.dest \in {<<D>>, <<S, B, DotDot, A, I>>} }

LiveCandidates ==
    { c \in Candidates : c.rel \in { << A, <<"same", DOT, "txt">> >>,
                                     << B, <<"same", DOT, "txt">> >>,
                                     << B, <<"B", DOT, "TXT">> >>,
                                     << <<"x", DOT, "_NO_EXT">> >>,
                                     << <<"sock">> >> } }

InitLive ==
    \E layout \in LiveLayouts, st \in {"taken", "blocked"}, mv \in BOOLEAN :
    \E chosen \in { c \in SUBSET LiveCandidates : Cardinality(c) <= MaxFiles } :
        Start(layout, chosen, st, mv)

-----------------------------------------------------------------------------
(* main and process_directory *)

Frame(d) ==
    [dir |-> d, listed |-> FALSE, entries |-> {}, files_count |-> 0, errors_count |-> 0]

Top == stack[Len(stack)]

MayFail == faults < MaxFaults

Event(op, path, target) == [op |-> op, path |-> path, target |-> target, run |-> run]

\* main up to its call of process_directory (lines 119-140)
Main ==
    /\ pc = "start"
    /\ UNCHANGED <<src, dest, move, run, fs0, total_files, total_errors>>
    /\ IF ~exists(fs, src) \/ ~is_dir(fs, src) \/ is_subpath(src, dest)
       THEN /\ exit_code' = 2
            /\ pc' = "done"
            /\ UNCHANGED <<fs, stack, faults, start_fs, events>>
       ELSE \/ /\ mkdir_ok(fs, dest)
               /\ fs' = mkdir(fs, dest)
               /\ start_fs' = fs'
               /\ stack' = <<Frame(src)>>
               /\ pc' = "walk"
               /\ exit_code' = -1
               /\ UNCHANGED <<faults, events>>
            \/ /\ ~mkdir_ok(fs, dest) \/ MayFail
               /\ faults' = IF mkdir_ok(fs, dest) THEN faults + 1 ELSE faults
               /\ exit_code' = 2
               /\ pc' = "done"
               /\ UNCHANGED <<fs, stack, start_fs, events>>

\* ReturnCounts without "errors_count += c_errs"
ReturnCounts_drop_errors(f, e) ==
    IF Len(stack) = 1
    THEN /\ stack' = <<>>
         /\ total_files' = f
         /\ total_errors' = e
         /\ exit_code' = IF e = 0 THEN 0 ELSE 1
         /\ pc' = "done"
    ELSE /\ stack' = [SubSeq(stack, 1, Len(stack) - 1) EXCEPT
                        ![Len(stack) - 1].files_count = @ + f]
         /\ UNCHANGED <<total_files, total_errors, exit_code, pc>>

\* process_directory returns (f, e) to its caller (lines 76-78, 109, 140-146)
ReturnCounts(f, e) ==
    IF Len(stack) = 1
    THEN /\ stack' = <<>>
         /\ total_files' = f
         /\ total_errors' = e
         /\ exit_code' = IF e = 0 THEN 0 ELSE 1
         /\ pc' = "done"
    ELSE /\ stack' = [SubSeq(stack, 1, Len(stack) - 1) EXCEPT
                        ![Len(stack) - 1].files_count = @ + f,
                        ![Len(stack) - 1].errors_count = @ + e]
         /\ UNCHANGED <<total_files, total_errors, exit_code, pc>>

\* entries = list(src_dir.iterdir()), or return 0, 1 (lines 66-70)
ListDir ==
    /\ pc = "walk"
    /\ ~Top.listed
    /\ UNCHANGED <<fs, src, dest, move, run, fs0, start_fs>>
    /\ \/ /\ stack' = [stack EXCEPT ![Len(stack)].listed = TRUE,
                                    ![Len(stack)].entries = iterdir(fs, Top.dir)]
          /\ events' = events \cup {Event("listed", Top.dir, <<>>)}
          /\ UNCHANGED <<faults, total_files, total_errors, exit_code, pc>>
       \/ /\ MayFail
          /\ faults' = faults + 1
          /\ events' = events \cup {Event("list_failed", Top.dir, <<>>)}
          /\ ReturnCounts(0, 1)

Without(entry) == [stack EXCEPT ![Len(stack)].entries = @ \ {entry}]

\* the loop body for a directory (lines 73-78)
StepDir ==
    /\ pc = "walk"
    /\ Top.listed
    /\ \E entry \in Top.entries :
        /\ is_dir(fs, entry)
        /\ IF is_subpath(entry, dest)
           THEN /\ stack' = Without(entry)
                /\ events' = events \cup {Event("skipped", entry, <<>>)}
           ELSE /\ stack' = Append(Without(entry), Frame(entry))
                /\ events' = events
    /\ UNCHANGED <<fs, pc, src, dest, move, total_files, total_errors, exit_code,
                   run, faults, fs0, start_fs>>

name_of(p) == p[Len(p)]

\* the loop body is done with a regular file: the file system it leaves,
\* the count it adds to, and the record of it
FileDone(entry, new_fs, op, target, injected) ==
    /\ fs' = new_fs
    /\ stack' = IF op = "placed"
                THEN [Without(entry) EXCEPT ![Len(stack)].files_count = @ + 1]
                ELSE [Without(entry) EXCEPT ![Len(stack)].errors_count = @ + 1]
    /\ events' = events \cup {Event(op, entry, target)}
    /\ faults' = IF injected THEN faults + 1 ELSE faults

\* the loop body for a regular file (lines 79-105); fault is the operation
\* the operating system refuses in this iteration, if any
StepFile ==
    /\ pc = "walk"
    /\ Top.listed
    /\ \E entry \in Top.entries :
        /\ is_file(fs, entry)
        /\ \E ext \in {ext_of(name_of(entry))} :
           \E target_dir \in {Append(dest, ext)} :
             IF ~mkdir_ok(fs, target_dir)
             THEN FileDone(entry, fs, "mkdir_failed", target_dir, FALSE)
             ELSE \E fault \in {"none", "mkdir", "place"} :
                  \E made \in {mkdir(fs, target_dir)} :
                  \E target \in {unique_target_path(made, target_dir, name_of(entry))} :
                    /\ fault # "none" => MayFail
                    /\ CASE fault = "mkdir" ->
                              FileDone(entry, fs, "mkdir_failed", target_dir, TRUE)
                         [] fault = "place" ->
                              FileDone(entry, made, "place_failed", target, TRUE)
                         [] OTHER ->
                              FileDone(entry, place(made, entry, target, move),
                                       "placed", target, FALSE)
    /\ UNCHANGED <<pc, src, dest, move, total_files, total_errors, exit_code,
                   run, fs0, start_fs>>

\* the loop body for anything else (lines 106-107)
StepOther ==
    /\ pc = "walk"
    /\ Top.listed
    /\ \E entry \in Top.entries :
        /\ ~is_dir(fs, entry)
        /\ ~is_file(fs, entry)
        /\ stack' = Without(entry)
        /\ events' = events \cup {Event("ignored", entry, <<>>)}
    /\ UNCHANGED <<fs, pc, src, dest, move, total_files, total_errors, exit_code,
                   run, faults, fs0, start_fs>>

\* the loop is over: return files_count, errors_count (line 109)
Return ==
    /\ pc = "walk"
    /\ Top.listed
    /\ Top.entries = {}
    /\ ReturnCounts(Top.files_count, Top.errors_count)
    /\ UNCHANGED <<fs, src, dest, move, run, faults, fs0, start_fs, events>>

\* the user runs the script again on the same source and destination, in
\* copy mode, after a run that reported no error
Rerun ==
    /\ pc = "done"
    /\ exit_code = 0
    /\ ~move
    /\ run < MaxRuns
    /\ run' = run + 1
    /\ pc' = "start"
    /\ exit_code' = -1
    /\ total_files' = 0
    /\ total_errors' = 0
    /\ UNCHANGED <<fs, src, dest, move, stack, faults, fs0, start_fs, events>>

Next ==
    \/ Main
    \/ ListDir
    \/ StepDir
    \/ StepFile
    \/ StepOther
    \/ Return
    \/ Rerun

Spec == Init /\ [][Next]_vars

\* the script is sequential and every operation it calls returns: a run
\* that can take a step takes one
FairSpec == InitLive /\ [][Next]_vars /\ WF_vars(Next)

TypeOK ==
    /\ pc \in {"start", "walk", "done"}
    /\ exit_code \in {-1, 0, 1, 2}
    /\ run \in 1..MaxRuns
    /\ faults \in 0..MaxFaults

-----------------------------------------------------------------------------
(* Vocabulary of the properties *)

parent_of(p) == Front(p)

InDest(p) == Len(Norm(dest)) <= Len(p) /\ SubSeq(p, 1, Len(Norm(dest))) = Norm(dest)
InSrc(p)  == Len(src) <= Len(p) /\ SubSeq(p, 1, Len(src)) = src

\* the regular files of the source tree that are not inside the destination
SourceFiles(f) ==
    { p \in DOMAIN f : f[p].kind = "file" /\ InSrc(p) /\ ~InDest(p) }

\* the bucket directory a name belongs to, stated from the name alone
BucketFor(name) ==
    Append(Norm(dest), IF suffix(name) = <<>> THEN NoExt ELSE Tail(lower(suffix(name))))

children(f, d) == { q \in DOMAIN f : Len(q) = Len(d) + 1 /\ parent_of(q) = d }

FailOps == {"mkdir_failed", "place_failed", "list_failed"}
FileOps == {"placed", "mkdir_failed", "place_failed"}

EventsOf(r, ops) == { e \in events : e.run = r /\ e.op \in ops }

NumberedNames(name) ==
    { numbered(stem(name), n, suffix(name)) : n \in 1..(Cardinality(DOMAIN fs) + 1) }

Finished == pc = "done" /\ exit_code \in {0, 1}

-----------------------------------------------------------------------------
(* C1 *)

\* C1: a step of the program leaves every node of the destination tree in
\* place with its content, and every placement it makes targets a path at
\* which nothing existed before the step.
C1_NoOverwrite ==
    [][ /\ \A p \in DOMAIN fs : InDest(p) => (p \in DOMAIN fs' /\ fs'[p] = fs[p])
        /\ \A e \in events' \ events :
              e.op = "placed" => Norm(e.target) \notin DOMAIN fs ]_vars

\* a placement met a taken name and went to another one, the old file intact
C1_Witness ==
    \E e \in events :
        /\ e.op = "placed"
        /\ name_of(e.target) # name_of(e.path)
        /\ Append(parent_of(Norm(e.target)), name_of(e.path)) \in DOMAIN fs0
        /\ fs[Append(parent_of(Norm(e.target)), name_of(e.path))] = FileNode(OldData)

(* C2 *)

\* C2: when a run ends without any failed operation, the files count is the
\* number of regular files of the source tree outside the destination, the
\* error count is 0 and the exit code is 0.
C2_CountsSourceFiles ==
    (Finished /\ EventsOf(run, FailOps) = {})
        => /\ total_files = Cardinality(SourceFiles(start_fs))
           /\ total_errors = 0
           /\ exit_code = 0

\* a clean run over two files, with an older file lying inside a nested destination
C2_Witness ==
    /\ Finished /\ EventsOf(run, FailOps) = {}
    /\ total_files = 2
    /\ InSrc(Norm(dest))
    /\ \E p \in DOMAIN start_fs : InDest(p) /\ start_fs[p].kind = "file"

(* C3 *)

NestedBefore ==
    /\ InSrc(Norm(dest)) /\ Norm(dest) # src
    /\ is_dir(fs0, dest)

\* C3: with the destination a directory somewhere below the source before the
\* run, a run without failure exits with 0, no directory listed is the
\* destination or inside it, and no entry classified lies inside it.
C3_DestinationSkipped ==
    NestedBefore =>
        /\ (pc = "done" /\ faults = 0 /\ EventsOf(run, FailOps) = {}) => exit_code = 0
        /\ \A e \in events :
              e.op \in (FileOps \cup {"listed", "list_failed", "ignored"}) => ~InDest(e.path)

\* a finished run that placed a file and skipped a destination two levels down
C3_Witness ==
    /\ NestedBefore
    /\ Len(Norm(dest)) = Len(src) + 2
    /\ pc = "done" /\ exit_code = 0
    /\ \E e \in events : e.op = "skipped" /\ Norm(e.path) = Norm(dest)
    /\ \E e \in events : e.op = "placed" /\ InDest(Norm(e.target))

(* C4 *)

Untouched == fs = fs0 /\ events = {} /\ stack = <<>>

\* C4 as stated: exit code 2 and nothing written when the source is missing,
\* is not a directory, or the destination is nested inside or equal to the source.
C4_AsStated ==
    (pc = "done" /\ run = 1 /\
        (~exists(fs0, src) \/ ~is_dir(fs0, src) \/ InSrc(Norm(dest))))
        => (exit_code = 2 /\ Untouched)

\* C4 amended: exit code 2 and nothing written when the source is missing,
\* is not a directory, or the source is nested inside or equal to the destination.
C4_FatalPreconditions ==
    (pc = "done" /\ run = 1 /\
        (~exists(fs0, src) \/ ~is_dir(fs0, src) \/ InDest(src)))
        => (exit_code = 2 /\ Untouched)

\* main refused a source directory lying strictly inside the destination
C4_Witness ==
    /\ pc = "done" /\ exit_code = 2
    /\ is_dir(fs0, src) /\ InDest(src) /\ src # Norm(dest)
    /\ \E p \in DOMAIN fs : InSrc(p) /\ fs[p].kind = "file"

(* C5 *)

\* C5: every file placed that has an extension lies in the bucket named by
\* its lowercased extension without the dot, so two files whose extensions
\* are equal up to case lie in the same bucket.
C5_BucketByLoweredExtension ==
    /\ \A e \in events :
          (e.op = "placed" /\ suffix(name_of(e.path)) # <<>>)
              => parent_of(Norm(e.target)) =
                     Append(Norm(dest), Tail(lower(suffix(name_of(e.path)))))
    /\ \A e1, e2 \in events :
          (/\ e1.op = "placed" /\ e2.op = "placed"
           /\ suffix(name_of(e1.path)) # <<>>
           /\ lower(suffix(name_of(e1.path))) = lower(suffix(name_of(e2.path))))
              => parent_of(Norm(e1.target)) = parent_of(Norm(e2.target))

\* a.txt of the source root and b/B.TXT were both placed
C5_Witness ==
    \E e1, e2 \in events :
        /\ e1.op = "placed" /\ e2.op = "placed" /\ e1.run = e2.run
        /\ Len(e1.path) # Len(e2.path)
        /\ suffix(name_of(e1.path)) # suffix(name_of(e2.path))
        /\ lower(suffix(name_of(e1.path))) = lower(suffix(name_of(e2.path)))
        /\ is_file(fs, e1.target) /\ is_file(fs, e2.target)

(* C6 *)

NoExtBucket == Append(Norm(dest), NoExt)

\* C6 as stated: a file without extension is placed in _no_ext, and no file
\* that has an extension is placed there.
C6_AsStated ==
    \A e \in events :
        e.op = "placed" =>
            /\ suffix(name_of(e.path)) = <<>> => parent_of(Norm(e.target)) = NoExtBucket
            /\ suffix(name_of(e.path)) # <<>> => parent_of(Norm(e.target)) # NoExtBucket

\* C6 amended: a file without extension is placed in _no_ext, and no file
\* whose lowercased extension is other than "_no_ext" is placed there.
C6_NoExtBucket ==
    \A e \in events :
        e.op = "placed" =>
            /\ suffix(name_of(e.path)) = <<>> => parent_of(Norm(e.target)) = NoExtBucket
            /\ (/\ suffix(name_of(e.path)) # <<>>
                /\ lower(suffix(name_of(e.path))) # <<DOT>> \o NoExt)
                  => parent_of(Norm(e.target)) # NoExtBucket

\* a dot file without extension and a file with an extension were both placed
C6_Witness ==
    \E e1, e2 \in events :
        /\ e1.op = "placed" /\ e2.op = "placed"
        /\ suffix(name_of(e1.path)) = <<>> /\ rfind(name_of(e1.path)) > 0
        /\ suffix(name_of(e2.path)) # <<>>
        /\ lower(suffix(name_of(e2.path))) # <<DOT>> \o NoExt
        /\ is_file(fs, e1.target) /\ is_file(fs, e2.target)

(* C7 *)

\* C7: after a run in move mode that reported no error, every regular file
\* the source tree held outside the destination is gone from its path and
\* its content is in a file of its bucket.
C7_MoveRelocates ==
    (pc = "done" /\ exit_code = 0 /\ move) =>
        \A p \in SourceFiles(start_fs) :
            /\ p \notin DOMAIN fs
            /\ \E q \in children(fs, BucketFor(name_of(p))) : fs[q] = start_fs[p]

\* a move run without error that relocated two files, one under a numbered name
C7_Witness ==
    /\ pc = "done" /\ exit_code = 0 /\ move
    /\ Cardinality(SourceFiles(start_fs)) = 2
    /\ \E e \in events : e.op = "placed" /\ name_of(e.target) # name_of(e.path)

(* C8 *)

\* C8: after a second copy run that follows a first one, both without error,
\* every file the first run placed holds the content it was given, every
\* file placed after the first run has a " (N)" name, and every bucket has
\* gained one entry per run for each source file that belongs to it.
C8_SecondRunDisambiguates ==
    (pc = "done" /\ exit_code = 0 /\ run >= 2) =>
        /\ \A e \in EventsOf(1, {"placed"}) :
              /\ Norm(e.target) \in DOMAIN fs
              /\ fs[Norm(e.target)] = fs0[e.path]
        /\ \A e \in events :
              (e.op = "placed" /\ e.run >= 2)
                  => name_of(e.target) \in NumberedNames(name_of(e.path))
        /\ \A p \in SourceFiles(fs0) :
              LET b == BucketFor(name_of(p))
              IN  Cardinality(children(fs, b)) =
                      Cardinality(children(fs0, b))
                      + run * Cardinality({ q \in SourceFiles(fs0) :
                                              BucketFor(name_of(q)) = b })

\* the second run placed two files of the same name
C8_Witness ==
    /\ pc = "done" /\ exit_code = 0 /\ run = 2
    /\ \E e1, e2 \in EventsOf(2, {"placed"}) :
          e1 # e2 /\ name_of(e1.path) = name_of(e2.path)

(* C9 *)

\* the regular files of the directories whose listing succeeded in run r
Enumerated(r) ==
    { p \in DOMAIN start_fs :
        /\ start_fs[p].kind = "file"
        /\ \E e \in EventsOf(r, {"listed"}) : e.path = parent_of(p) }

CountedOnce ==
    Finished =>
        /\ \A p \in Enumerated(run) :
              Cardinality({ e \in EventsOf(run, FileOps) : e.path = p }) = 1
        /\ total_files = Cardinality(EventsOf(run, {"placed"}))
        /\ total_errors = Cardinality(EventsOf(run, FailOps))
        /\ \A e \in EventsOf(run, {"list_failed"}) :
              \A p \in DOMAIN start_fs :
                  (Len(p) > Len(e.path) /\ SubSeq(p, 1, Len(e.path)) = e.path)
                      => \A g \in EventsOf(run, FileOps \cup {"listed"}) : g.path # p

\* C9: whatever listing, bucket creation or placement fails, every run that
\* starts comes to its end, and at the end every regular file enumerated was
\* handled exactly once, files_count is the number of files placed,
\* errors_count the number of failed entries, and a directory whose listing
\* failed counts as one error with nothing below it visited.
C9_FailuresIsolated ==
    /\ []CountedOnce
    /\ (pc = "start") ~> (pc = "done")

\* a run ended with one failed entry and one file placed from a subdirectory
C9_Witness ==
    /\ Finished
    /\ total_errors = 1 /\ total_files = 1
    /\ \E e \in EventsOf(run, {"mkdir_failed", "place_failed"}) :
       \E g \in EventsOf(run, {"placed"}) : Len(g.path) > Len(e.path)

(* C10 *)

MinimalName(f, e) ==
    LET name == name_of(e.path)
        dir  == parent_of(e.target)
    IN  IF ~exists(f, Append(dir, name))
        THEN e.target = Append(dir, name)
        ELSE \E n \in 1..(Cardinality(DOMAIN f) + 1) :
                /\ e.target = Append(dir, numbered(stem(name), n, suffix(name)))
                /\ ~exists(f, e.target)
                /\ \A m \in 1..(n - 1) :
                      exists(f, Append(dir, numbered(stem(name), m, suffix(name))))

SameTwice ==
    /\ { name_of(p) : p \in SourceFiles(fs0) } = { <<"same", DOT, "txt">> }
    /\ Cardinality(SourceFiles(fs0)) = 2
    /\ children(fs0, BucketFor(<<"same", DOT, "txt">>)) = {}

====
